---- MODULE Spec2Model ----
(***************************************************************************)
(* Model of the aggregator of blockless-avs-tools                          *)
(* (src/aggregator/aggregator.go): the dispatch loop Aggregator.Start with *)
(* its handlers processTaskCreatedLog and sendAggregatedResponseToContract,*)
(* the registries tasks and taskResponses, and the collaborators the loop  *)
(* talks to (event subscriptions, the BLS aggregation service, the chain   *)
(* writer, the server that records responses).                             *)
(*                                                                         *)
(* In Spec and LiveSpec one step of the loop is one case of its select,     *)
(* handler included: the loop is the only writer of tasks, and it reads    *)
(* taskResponses once per handler, so a handler sees the registries as     *)
(* they are at one instant. FineSpec and WritersSpec take the same loop    *)
(* statement by statement, with its locks and local variables, for the     *)
(* properties that speak of what happens inside a handler.                 *)
(***************************************************************************)
EXTENDS Integers, Sequences, FiniteSets, TLC

\* ---------------------------------------------------------------- bounds
MaxEnv == 4         \* steps the collaborators of the loop take in one run

\* ------------------------------------------------------ program constants
taskChallengeWindowBlock == 100
blockTimeSeconds == 12

\* ------------------------------------------------------------ data domain
None == [kind |-> "none"]
TaskIndex == {1, 2}
EventClass == {"created", "responded"}
Digests == {"0xAB", "0xCD"}

\* Two task payloads an event may carry (IIncredibleSquaringTaskManagerTask).
\* The second one carries a threshold that does not fit in 8 bits.
TaskPayloads ==
  { [numberToBeSquared |-> 5, taskCreatedBlock |-> 1000,
     quorumNumbers |-> <<0, 1>>, quorumThresholdPercentage |-> 67],
    [numberToBeSquared |-> 7, taskCreatedBlock |-> 1001,
     quorumNumbers |-> <<1>>, quorumThresholdPercentage |-> 300] }

\* Go zero values, returned by a map read of an absent key.
ZeroTask ==
  [numberToBeSquared |-> 0, taskCreatedBlock |-> 0,
   quorumNumbers |-> <<>>, quorumThresholdPercentage |-> 0]
ZeroTaskResponse == [referenceTaskIndex |-> 0, numberSquared |-> "0x00"]

\* The response the server stores under (index, digest).
ResponseOf(index, digest) ==
  [referenceTaskIndex |-> index, numberSquared |-> digest]

VARIABLES
  pc,                   \* the Start goroutine: "select", "returned", "panicked",
                        \* or the statement of a handler it executes next
  tasks,                \* agg.tasks
  taskResponses,        \* agg.taskResponses
  subTaskCreated,       \* local subscription handle of Start
  subTaskResponded,     \* local subscription handle of Start
  newTaskCreatedChan,   \* agg.newTaskCreatedChan (unbuffered: one pending send)
  newTaskRespondedChan, \* agg.newTaskRespondedChan
  responseChannel,      \* blsAggregationService.GetResponseChannel()
  ctxDone,              \* ctx.Done() is closed
  sessions,             \* indices the aggregation service tracks
  finalized,            \* indices whose terminal result was delivered
  nCreated, nResponded, nSubErr, nRecorded,  \* what the collaborators have done
  initCalls,            \* InitializeNewTask calls per index, and the last one
  sendCalls,            \* SendAggregatedResponse calls per index, and the last one
  dequeued,             \* error-free completions the loop dequeued, per index
  panics,               \* panics raised
  firstTask,            \* per index, the task of the first event processed
  processed,            \* ids of the task-created events the loop handled
  logged,               \* ids of the task-responded events the loop logged
  liveSubs,             \* per class, the subscriptions made and not unsubscribed
  newTaskCreatedLog,    \* local of Start: the task-created event being handled
  blsAggServiceResp,    \* local of Start: the completion being handled
  task,                 \* local of sendAggregatedResponseToContract
  taskResponse,         \* local of sendAggregatedResponseToContract
  sendErr,              \* local err of sendAggregatedResponseToContract
  tasksMu,              \* agg.tasksMu: "unlocked", "rlocked", "locked"
  taskResponsesMu,      \* agg.taskResponsesMu
  writers               \* the server's goroutines that record a response

vars == << pc, tasks, taskResponses, subTaskCreated, subTaskResponded,
           newTaskCreatedChan, newTaskRespondedChan, responseChannel, ctxDone,
           sessions, finalized, nCreated, nResponded, nSubErr, nRecorded,
           initCalls, sendCalls, dequeued, panics, firstTask, processed,
           logged, liveSubs, newTaskCreatedLog, blsAggServiceResp, task,
           taskResponse, sendErr, tasksMu, taskResponsesMu, writers >>

registry == << tasks, taskResponses >>
subs == << subTaskCreated, subTaskResponded, liveSubs >>
chans == << newTaskCreatedChan, newTaskRespondedChan >>
service == << sessions, finalized >>
counters == << nCreated, nResponded, nSubErr, nRecorded >>
history == << initCalls, sendCalls, dequeued, panics, firstTask, processed,
              logged >>
locals == << newTaskCreatedLog, blsAggServiceResp, task, taskResponse,
             sendErr >>
locks == << tasksMu, taskResponsesMu >>
frame == << locals, locks, writers >>

\* ------------------------------------------------------------- map helpers
\* m[k] of a Go map: the zero value when the key is absent.
MapGet(m, k, zero) == IF k \in DOMAIN m THEN m[k] ELSE zero

\* m[k] = v of a Go map: insert or overwrite.
MapPut(m, k, v) == [x \in DOMAIN m \cup {k} |-> IF x = k THEN v ELSE m[x]]

\* agg.taskResponses[index][digest]: a read of a nil inner map gives zero too.
ResponseGet(m, index, digest) ==
  IF index \in DOMAIN m THEN MapGet(m[index], digest, ZeroTaskResponse)
  ELSE ZeroTaskResponse

\* -------------------------------------------------------------------- Init
\* SubscribeToNewTasks / SubscribeToTaskResponses: a live subscription that
\* forwards the chain's events to the target channel.
Subscription(gen, target) == [gen |-> gen, target |-> target, failed |-> FALSE]

\* The goroutines of the server that record responses, and one at rest.
Writers == {1, 2}
Idle == [pc |-> "idle", taskIndex |-> 0, digest |-> "0x00"]

NoCalls == [count |-> [i \in TaskIndex |-> 0], last |-> None]

Init ==
  /\ pc = "select"
  /\ tasks = << >>
  /\ taskResponses = << >>
  /\ subTaskCreated = Subscription(0, "newTaskCreatedChan")
  /\ subTaskResponded = Subscription(0, "newTaskRespondedChan")
  /\ newTaskCreatedChan = None
  /\ newTaskRespondedChan = None
  /\ responseChannel = None
  /\ ctxDone = FALSE
  /\ sessions = {}
  /\ finalized = {}
  /\ nCreated = 0
  /\ nResponded = 0
  /\ nSubErr = [c \in EventClass |-> 0]
  /\ nRecorded = 0
  /\ initCalls = NoCalls
  /\ sendCalls = NoCalls
  /\ dequeued = [i \in TaskIndex |-> 0]
  /\ panics = 0
  /\ firstTask = [i \in TaskIndex |-> ZeroTask]
  /\ processed = {}
  /\ logged = {}
  /\ liveSubs = [c \in EventClass |-> {0}]
  /\ newTaskCreatedLog = None
  /\ blsAggServiceResp = None
  /\ task = ZeroTask
  /\ taskResponse = ZeroTaskResponse
  /\ sendErr = "unset"
  /\ tasksMu = "unlocked"
  /\ taskResponsesMu = "unlocked"
  /\ writers = [w \in Writers |-> Idle]

\* ------------------------------------------------------------ collaborators
\* The steps the collaborators have taken so far.
EnvSteps ==
  nCreated + nResponded + nSubErr["created"] + nSubErr["responded"]
  + nRecorded + Cardinality(finalized) + (IF ctxDone THEN 1 ELSE 0)

\* The process is alive (a panic of the Start goroutine ends every goroutine)
\* and the run's budget of collaborator steps is not used up.
Alive == pc # "panicked" /\ EnvSteps < MaxEnv

ChanOf(target) ==
  IF target = "newTaskCreatedChan" THEN newTaskCreatedChan
  ELSE newTaskRespondedChan

\* A subscription goroutine offers msg on its target channel.
Offer(target, msg) ==
  /\ ChanOf(target) = None
  /\ newTaskCreatedChan' =
       IF target = "newTaskCreatedChan" THEN msg ELSE newTaskCreatedChan
  /\ newTaskRespondedChan' =
       IF target = "newTaskRespondedChan" THEN msg ELSE newTaskRespondedChan

\* The goroutine of a failed subscription stops: the send it was blocked in
\* is withdrawn.
Withdraw(ch, class, gen) ==
  IF ch.kind = class /\ ch.gen = gen THEN None ELSE ch

\* The chain emits NewTaskCreated; the live subscription forwards it.
EmitTaskCreated ==
  /\ Alive
  /\ ~subTaskCreated.failed
  /\ \E i \in TaskIndex, t \in TaskPayloads :
       Offer(subTaskCreated.target,
             [kind |-> "created", id |-> nCreated + 1, taskIndex |-> i,
              task |-> t, gen |-> subTaskCreated.gen])
  /\ nCreated' = nCreated + 1
  /\ UNCHANGED << frame, pc, registry, subs, responseChannel, ctxDone, service,
                  nResponded, nSubErr, nRecorded, history >>

\* The chain emits TaskResponded; the live subscription forwards it.
EmitTaskResponded ==
  /\ Alive
  /\ ~subTaskResponded.failed
  /\ \E i \in TaskIndex :
       Offer(subTaskResponded.target,
             [kind |-> "responded", id |-> nResponded + 1, taskIndex |-> i,
              gen |-> subTaskResponded.gen])
  /\ nResponded' = nResponded + 1
  /\ UNCHANGED << frame, pc, registry, subs, responseChannel, ctxDone, service,
                  nCreated, nSubErr, nRecorded, history >>

\* The websocket subscription for NewTaskCreated breaks: an error is ready on
\* subTaskCreated.Err().
FailTaskCreatedSub ==
  /\ Alive
  /\ ~subTaskCreated.failed
  /\ subTaskCreated' = [subTaskCreated EXCEPT !.failed = TRUE]
  /\ newTaskCreatedChan' =
       Withdraw(newTaskCreatedChan, "created", subTaskCreated.gen)
  /\ newTaskRespondedChan' =
       Withdraw(newTaskRespondedChan, "created", subTaskCreated.gen)
  /\ nSubErr' = [nSubErr EXCEPT !["created"] = @ + 1]
  /\ UNCHANGED << frame, liveSubs, pc, registry, subTaskResponded,
                  responseChannel, ctxDone, service, nCreated, nResponded,
                  nRecorded, history >>

\* The websocket subscription for TaskResponded breaks.
FailTaskRespondedSub ==
  /\ Alive
  /\ ~subTaskResponded.failed
  /\ subTaskResponded' = [subTaskResponded EXCEPT !.failed = TRUE]
  /\ newTaskCreatedChan' =
       Withdraw(newTaskCreatedChan, "responded", subTaskResponded.gen)
  /\ newTaskRespondedChan' =
       Withdraw(newTaskRespondedChan, "responded", subTaskResponded.gen)
  /\ nSubErr' = [nSubErr EXCEPT !["responded"] = @ + 1]
  /\ UNCHANGED << frame, liveSubs, pc, registry, subTaskCreated,
                  responseChannel, ctxDone, service, nCreated, nResponded,
                  nRecorded, history >>

\* The caller of Start cancels the context.
Cancel ==
  /\ Alive
  /\ ~ctxDone
  /\ ctxDone' = TRUE
  /\ UNCHANGED << frame, pc, registry, subs, chans, responseChannel, service,
                  counters, history >>

\* The aggregation service delivers the terminal result of one task on its
\* response channel: at most one per task index, carrying the digest that
\* reached quorum, or an error.
DeliverResponse ==
  /\ Alive
  /\ responseChannel = None
  /\ \E i \in TaskIndex \ finalized, d \in Digests \cup {"0x00"} :
       /\ responseChannel' =
            [kind |-> "completion", taskIndex |-> i, digest |-> d,
             err |-> (d = "0x00")]
       /\ finalized' = finalized \cup {i}
  /\ UNCHANGED << frame, pc, registry, subs, chans, ctxDone, sessions, counters,
                  history >>

\* The response-recording server stores a signed response under
\* (index, digest), under the exclusive lock, creating the inner map lazily.
RecordResponse ==
  /\ Alive
  /\ taskResponsesMu = "unlocked"
  /\ \E i \in TaskIndex, d \in Digests :
       /\ ResponseGet(taskResponses, i, d) = ZeroTaskResponse
       /\ taskResponses' =
            MapPut(taskResponses, i,
                   MapPut(MapGet(taskResponses, i, << >>), d, ResponseOf(i, d)))
  /\ nRecorded' = nRecorded + 1
  /\ UNCHANGED << frame, pc, tasks, subs, chans, responseChannel, ctxDone, service,
                  nCreated, nResponded, nSubErr, history >>

\* --------------------------------------------------- Start: the select loop
\* A variant that returns the context's error and closes the open sessions.
CaseCtxDone_ReturnsErrAndCleans ==
  /\ pc = "select"
  /\ ctxDone
  /\ pc' = "returnedErr"
  /\ sessions' = sessions \cap finalized
  /\ UNCHANGED << frame, registry, subs, chans, responseChannel, ctxDone, finalized,
                  counters, history >>

\* case <-ctx.Done(): return nil
CaseCtxDone ==
  /\ pc = "select"
  /\ ctxDone
  /\ pc' = "returned"
  /\ UNCHANGED << frame, registry, subs, chans, responseChannel, ctxDone, service,
                  counters, history >>

\* A variant that re-subscribes with the other class's channel as the target.
ResubscribeTaskCreated_OtherChannel(sub) ==
  Subscription(sub.gen + 1, "newTaskRespondedChan")

\* subTaskCreated.Unsubscribe()
\* subTaskCreated = agg.avsSubscriber.SubscribeToNewTasks(agg.newTaskCreatedChan)
ResubscribeTaskCreated(sub) ==
  Subscription(sub.gen + 1, "newTaskCreatedChan")

\* subTaskResponded.Unsubscribe()
\* subTaskResponded = agg.avsSubscriber.SubscribeToTaskResponses(agg.newTaskRespondedChan)
ResubscribeTaskResponded(sub) ==
  Subscription(sub.gen + 1, "newTaskRespondedChan")

\* sub.Unsubscribe(): the subscription of this class and generation is closed
Unsubscribe(live, class, gen) == [live EXCEPT ![class] = @ \ {gen}]

\* SubscribeToNewTasks / SubscribeToTaskResponses: a subscription is opened
Subscribe(live, class, gen) == [live EXCEPT ![class] = @ \cup {gen}]

\* case err := <-subTaskCreated.Err()
CaseTaskCreatedSubErr ==
  /\ pc = "select"
  /\ subTaskCreated.failed
  /\ subTaskCreated' = ResubscribeTaskCreated(subTaskCreated)
  /\ liveSubs' = Subscribe(Unsubscribe(liveSubs, "created", subTaskCreated.gen),
                           "created", subTaskCreated'.gen)
  /\ UNCHANGED << frame, pc, registry, subTaskResponded, chans, responseChannel,
                  ctxDone, service, counters, history >>

\* case err := <-subTaskResponded.Err()
CaseTaskRespondedSubErr ==
  /\ pc = "select"
  /\ subTaskResponded.failed
  /\ subTaskResponded' = ResubscribeTaskResponded(subTaskResponded)
  /\ liveSubs' =
       Subscribe(Unsubscribe(liveSubs, "responded", subTaskResponded.gen),
                 "responded", subTaskResponded'.gen)
  /\ UNCHANGED << frame, pc, registry, subTaskCreated, chans, responseChannel,
                  ctxDone, service, counters, history >>

\* A variant that drops the task of a responded index from the registry.
CaseTaskResponded_ForgetsTask ==
  /\ pc = "select"
  /\ newTaskRespondedChan # None
  /\ newTaskRespondedChan' = None
  /\ logged' = IF newTaskRespondedChan.kind = "responded"
               THEN logged \cup {newTaskRespondedChan.id} ELSE logged
  /\ tasks' = [i \in DOMAIN tasks \ {newTaskRespondedChan.taskIndex}
                 |-> tasks[i]]
  /\ UNCHANGED << frame, pc, taskResponses, subs, newTaskCreatedChan,
                  responseChannel, ctxDone, service, counters, initCalls,
                  sendCalls, dequeued, panics, firstTask, processed >>

\* A variant that logs a task-responded event whatever the loop is doing.
CaseTaskResponded_AnyTime ==
  /\ newTaskRespondedChan # None
  /\ newTaskRespondedChan' = None
  /\ logged' = IF newTaskRespondedChan.kind = "responded"
               THEN logged \cup {newTaskRespondedChan.id} ELSE logged
  /\ UNCHANGED << frame, pc, registry, subs, newTaskCreatedChan,
                  responseChannel, ctxDone, service, counters, initCalls,
                  sendCalls, dequeued, panics, firstTask, processed >>

\* case taskRespondedLog := <-agg.newTaskRespondedChan: logged, nothing else
CaseTaskResponded ==
  /\ pc = "select"
  /\ newTaskRespondedChan # None
  /\ newTaskRespondedChan' = None
  /\ logged' = IF newTaskRespondedChan.kind = "responded"
               THEN logged \cup {newTaskRespondedChan.id} ELSE logged
  /\ UNCHANGED << frame, pc, registry, subs, newTaskCreatedChan, responseChannel,
                  ctxDone, service, counters, initCalls, sendCalls, dequeued,
                  panics, firstTask, processed >>

\* ---------------------------------------------------- processTaskCreatedLog
\* agg.tasks[taskLog.TaskIndex] = taskLog.Task   (under tasksMu.Lock)
RegisterTask(m, taskLog) == MapPut(m, taskLog.taskIndex, taskLog.task)

\* sdktypes.QuorumThresholdPercentage(x): uint32 to uint8
ToQuorumThresholdPercentage(x) == x % 256

\* sdktypes.QuorumNum(b): byte to uint8
ToQuorumNum(b) == b % 256

\* quorumThresholdPercentages: one entry per quorum number, each the task's
\* QuorumThresholdPercentage
QuorumThresholdPercentages(t) ==
  [i \in 1..Len(t.quorumNumbers) |->
     ToQuorumThresholdPercentage(t.quorumThresholdPercentage)]

\* quorumNums: the task's quorum numbers, appended in order
QuorumNums(t) ==
  [i \in 1..Len(t.quorumNumbers) |-> ToQuorumNum(t.quorumNumbers[i])]

\* taskTimeToExpiry := taskChallengeWindowBlock * blockTimeSeconds (seconds)
taskTimeToExpiry == taskChallengeWindowBlock * blockTimeSeconds

\* A variant that passes the time of the block at which the challenge window
\* of the task closes.
InitializeNewTaskArgs_ExpiryAtBlock(taskLog) ==
  [kind |-> "init",
   taskIndex |-> taskLog.taskIndex,
   taskCreatedBlock |-> taskLog.task.taskCreatedBlock,
   quorumNums |-> QuorumNums(taskLog.task),
   quorumThresholdPercentages |-> QuorumThresholdPercentages(taskLog.task),
   timeToExpiry |-> (taskLog.task.taskCreatedBlock + taskChallengeWindowBlock)
                    * blockTimeSeconds]

\* The arguments processTaskCreatedLog passes to InitializeNewTask.
InitializeNewTaskArgs(taskLog) ==
  [kind |-> "init",
   taskIndex |-> taskLog.taskIndex,
   taskCreatedBlock |-> taskLog.task.taskCreatedBlock,
   quorumNums |-> QuorumNums(taskLog.task),
   quorumThresholdPercentages |-> QuorumThresholdPercentages(taskLog.task),
   timeToExpiry |-> taskTimeToExpiry]

\* The aggregation service refuses an index it already tracks and lists of
\* different lengths.
InitializeNewTaskRefuses(args) ==
  \/ args.taskIndex \in sessions
  \/ Len(args.quorumNums) # Len(args.quorumThresholdPercentages)

\* A variant that registers the task only once its session is open.
processTaskCreatedLog_InsertOnSuccess(taskLog) ==
  LET args == InitializeNewTaskArgs(taskLog) IN
    \E fault \in BOOLEAN :
      LET err == fault \/ InitializeNewTaskRefuses(args) IN
        /\ tasks' = IF err THEN tasks ELSE RegisterTask(tasks, taskLog)
        /\ sessions' = IF err THEN sessions
                       ELSE sessions \cup {args.taskIndex}
        /\ initCalls' =
             [count |-> [initCalls.count EXCEPT ![args.taskIndex] = @ + 1],
              last |-> args]

\* A variant that takes the task out of the registry again when
\* InitializeNewTask returns an error.
processTaskCreatedLog_RollsBack(taskLog) ==
  LET args == InitializeNewTaskArgs(taskLog) IN
    \E fault \in BOOLEAN :
      LET err == fault \/ InitializeNewTaskRefuses(args) IN
        /\ tasks' = IF err
                    THEN [i \in DOMAIN tasks \ {taskLog.taskIndex} |-> tasks[i]]
                    ELSE RegisterTask(tasks, taskLog)
        /\ sessions' = IF err THEN sessions
                       ELSE sessions \cup {args.taskIndex}
        /\ initCalls' =
             [count |-> [initCalls.count EXCEPT ![args.taskIndex] = @ + 1],
              last |-> args]

\* processTaskCreatedLog(taskLog): the insert, then InitializeNewTask, whose
\* error is returned to Start
processTaskCreatedLog(taskLog) ==
  /\ tasks' = RegisterTask(tasks, taskLog)
  /\ LET args == InitializeNewTaskArgs(taskLog) IN
       \E fault \in BOOLEAN :
         LET err == fault \/ InitializeNewTaskRefuses(args) IN
           /\ sessions' = IF err THEN sessions
                          ELSE sessions \cup {args.taskIndex}
           /\ initCalls' =
                [count |-> [initCalls.count EXCEPT ![args.taskIndex] = @ + 1],
                 last |-> args]

\* A variant in which Start returns the error of processTaskCreatedLog.
CaseNewTaskCreated_ReturnsErr ==
  /\ pc = "select"
  /\ newTaskCreatedChan.kind = "created"
  /\ newTaskCreatedChan' = None
  /\ processTaskCreatedLog(newTaskCreatedChan)
  /\ pc' = IF sessions' = sessions THEN "returnedErr" ELSE pc
  /\ firstTask' =
       IF initCalls.count[newTaskCreatedChan.taskIndex] = 0
       THEN [firstTask EXCEPT
               ![newTaskCreatedChan.taskIndex] = newTaskCreatedChan.task]
       ELSE firstTask
  /\ processed' = processed \cup {newTaskCreatedChan.id}
  /\ UNCHANGED << frame, taskResponses, subs, newTaskRespondedChan,
                  responseChannel, ctxDone, finalized, counters, sendCalls,
                  dequeued, panics, logged >>

\* case newTaskCreatedLog := <-agg.newTaskCreatedChan: processTaskCreatedLog,
\* its error logged
CaseNewTaskCreated ==
  /\ pc = "select"
  /\ newTaskCreatedChan.kind = "created"
  /\ newTaskCreatedChan' = None
  /\ processTaskCreatedLog(newTaskCreatedChan)
  /\ firstTask' =
       IF initCalls.count[newTaskCreatedChan.taskIndex] = 0
       THEN [firstTask EXCEPT
               ![newTaskCreatedChan.taskIndex] = newTaskCreatedChan.task]
       ELSE firstTask
  /\ processed' = processed \cup {newTaskCreatedChan.id}
  /\ UNCHANGED << frame, pc, taskResponses, subs, newTaskRespondedChan,
                  responseChannel, ctxDone, finalized, counters, sendCalls,
                  dequeued, panics, logged >>

\* ----------------------------------------- sendAggregatedResponseToContract
\* task := agg.tasks[blsAggServiceResp.TaskIndex]   (under tasksMu.RLock)
LookupTask(m, resp) == MapGet(m, resp.taskIndex, ZeroTask)

\* A variant that reads the response of the index without regard to the digest.
LookupTaskResponse_AnyDigest(m, resp) ==
  IF resp.taskIndex \in DOMAIN m
  THEN m[resp.taskIndex][CHOOSE d \in DOMAIN m[resp.taskIndex] :
                            d # resp.digest \/ DOMAIN m[resp.taskIndex] = {d}]
  ELSE ZeroTaskResponse

\* taskResponse := agg.taskResponses[resp.TaskIndex][resp.TaskResponseDigest]
\* (under taskResponsesMu.RLock)
LookupTaskResponse(m, resp) == ResponseGet(m, resp.taskIndex, resp.digest)

\* agg.avsWriter.SendAggregatedResponse(ctx, task, taskResponse, ...): the
\* call is recorded; its error is logged and changes nothing
SendAggregatedResponse(resp, t, r) ==
  \E err \in BOOLEAN :
    sendCalls' =
      [count |-> [sendCalls.count EXCEPT ![resp.taskIndex] = @ + 1],
       last |-> [kind |-> "send", taskIndex |-> resp.taskIndex,
                 digest |-> resp.digest, task |-> t, taskResponse |-> r]]

\* A variant that submits a second time when the chain writer reports an error.
sendAggregatedResponseToContract_Retry(resp) ==
  IF resp.err
  THEN /\ pc' = "panicked"
       /\ panics' = panics + 1
       /\ UNCHANGED sendCalls
  ELSE /\ \E err \in BOOLEAN :
            sendCalls' =
              [count |-> [sendCalls.count EXCEPT
                            ![resp.taskIndex] = @ + (IF err THEN 2 ELSE 1)],
               last |-> [kind |-> "send", taskIndex |-> resp.taskIndex,
                         digest |-> resp.digest,
                         task |-> MapGet(tasks, resp.taskIndex, ZeroTask),
                         taskResponse |->
                           ResponseGet(taskResponses, resp.taskIndex,
                                       resp.digest)]]
       /\ UNCHANGED << pc, panics >>

\* A variant that logs the error of a completion and returns, without the panic.
sendAggregatedResponseToContract_LogOnly(resp) ==
  IF resp.err
  THEN UNCHANGED << pc, panics, sendCalls >>
  ELSE /\ \E err \in BOOLEAN :
            sendCalls' =
              [count |-> [sendCalls.count EXCEPT ![resp.taskIndex] = @ + 1],
               last |-> [kind |-> "send", taskIndex |-> resp.taskIndex,
                         digest |-> resp.digest,
                         task |-> MapGet(tasks, resp.taskIndex, ZeroTask),
                         taskResponse |->
                           ResponseGet(taskResponses, resp.taskIndex,
                                       resp.digest)]]
       /\ UNCHANGED << pc, panics >>

\* sendAggregatedResponseToContract(blsAggServiceResp)
sendAggregatedResponseToContract(resp) ==
  IF resp.err
  THEN /\ pc' = "panicked"
       /\ panics' = panics + 1
       /\ UNCHANGED sendCalls
  ELSE /\ SendAggregatedResponse(resp, LookupTask(tasks, resp),
                                 LookupTaskResponse(taskResponses, resp))
       /\ UNCHANGED << pc, panics >>

\* case blsAggServiceResp := <-agg.blsAggregationService.GetResponseChannel()
CaseBlsResponse ==
  /\ pc = "select"
  /\ responseChannel # None
  /\ responseChannel' = None
  /\ sendAggregatedResponseToContract(responseChannel)
  /\ dequeued' = IF responseChannel.err THEN dequeued
                 ELSE [dequeued EXCEPT ![responseChannel.taskIndex] = @ + 1]
  /\ UNCHANGED << frame, registry, subs, chans, ctxDone, service, counters,
                  initCalls, firstTask, processed, logged >>

\* ------------------------------------------------------------ specification
Next ==
  \/ EmitTaskCreated
  \/ EmitTaskResponded
  \/ FailTaskCreatedSub
  \/ FailTaskRespondedSub
  \/ Cancel
  \/ DeliverResponse
  \/ RecordResponse
  \/ CaseCtxDone
  \/ CaseTaskCreatedSubErr
  \/ CaseNewTaskCreated
  \/ CaseTaskRespondedSubErr
  \/ CaseTaskResponded
  \/ CaseBlsResponse

Spec == Init /\ [][Next]_vars

\* The select of Start chooses among its ready cases at random: a case that
\* stays ready is eventually chosen.
LoopFairness ==
  /\ WF_vars(CaseCtxDone)
  /\ WF_vars(CaseTaskCreatedSubErr)
  /\ WF_vars(CaseNewTaskCreated)
  /\ WF_vars(CaseTaskRespondedSubErr)
  /\ WF_vars(CaseTaskResponded)
  /\ WF_vars(CaseBlsResponse)

\* The loop and the collaborators that feed its channels; the server that
\* records responses is left out: no case of the select reads taskResponses
\* before a completion is dequeued, and no subscription depends on it.
LoopNext ==
  \/ EmitTaskCreated
  \/ EmitTaskResponded
  \/ FailTaskCreatedSub
  \/ FailTaskRespondedSub
  \/ Cancel
  \/ DeliverResponse
  \/ CaseCtxDone
  \/ CaseTaskCreatedSubErr
  \/ CaseNewTaskCreated
  \/ CaseTaskRespondedSubErr
  \/ CaseTaskResponded
  \/ CaseBlsResponse

LiveSpec == Init /\ [][LoopNext]_vars /\ LoopFairness

\* ------------------------------------- the loop, statement by statement
\* The same loop with one step per statement that takes or releases a lock,
\* makes a call on a collaborator or waits in the select. pc names the
\* statement the Start goroutine executes next.

\* A variant that subscribes anew before it closes the failed subscription.
SelectTaskCreatedSubErr_SubscribesFirst ==
  /\ pc = "select"
  /\ subTaskCreated.failed
  /\ liveSubs' = Subscribe(liveSubs, "created", subTaskCreated.gen + 1)
  /\ pc' = "subscribeToNewTasks"
  /\ UNCHANGED << frame, registry, subTaskCreated, subTaskResponded, chans,
                  responseChannel, ctxDone, service, counters, history >>

\* case err := <-subTaskCreated.Err(): subTaskCreated.Unsubscribe()
SelectTaskCreatedSubErr ==
  /\ pc = "select"
  /\ subTaskCreated.failed
  /\ liveSubs' = Unsubscribe(liveSubs, "created", subTaskCreated.gen)
  /\ pc' = "subscribeToNewTasks"
  /\ UNCHANGED << frame, registry, subTaskCreated, subTaskResponded, chans,
                  responseChannel, ctxDone, service, counters, history >>

\* subTaskCreated = agg.avsSubscriber.SubscribeToNewTasks(agg.newTaskCreatedChan)
SubscribeToNewTasks ==
  /\ pc = "subscribeToNewTasks"
  /\ subTaskCreated' = ResubscribeTaskCreated(subTaskCreated)
  /\ liveSubs' = Subscribe(liveSubs, "created", subTaskCreated'.gen)
  /\ pc' = "select"
  /\ UNCHANGED << frame, registry, subTaskResponded, chans, responseChannel,
                  ctxDone, service, counters, history >>

\* case err := <-subTaskResponded.Err(): subTaskResponded.Unsubscribe()
SelectTaskRespondedSubErr ==
  /\ pc = "select"
  /\ subTaskResponded.failed
  /\ liveSubs' = Unsubscribe(liveSubs, "responded", subTaskResponded.gen)
  /\ pc' = "subscribeToTaskResponses"
  /\ UNCHANGED << frame, registry, subTaskCreated, subTaskResponded, chans,
                  responseChannel, ctxDone, service, counters, history >>

\* subTaskResponded = agg.avsSubscriber.SubscribeToTaskResponses(agg.newTaskRespondedChan)
SubscribeToTaskResponses ==
  /\ pc = "subscribeToTaskResponses"
  /\ subTaskResponded' = ResubscribeTaskResponded(subTaskResponded)
  /\ liveSubs' = Subscribe(liveSubs, "responded", subTaskResponded'.gen)
  /\ pc' = "select"
  /\ UNCHANGED << frame, registry, subTaskCreated, chans, responseChannel,
                  ctxDone, service, counters, history >>

\* case newTaskCreatedLog := <-agg.newTaskCreatedChan
SelectNewTaskCreated ==
  /\ pc = "select"
  /\ newTaskCreatedChan.kind = "created"
  /\ newTaskCreatedLog' = newTaskCreatedChan
  /\ newTaskCreatedChan' = None
  /\ pc' = "tasksLock"
  /\ firstTask' =
       IF initCalls.count[newTaskCreatedChan.taskIndex] = 0
       THEN [firstTask EXCEPT
               ![newTaskCreatedChan.taskIndex] = newTaskCreatedChan.task]
       ELSE firstTask
  /\ processed' = processed \cup {newTaskCreatedChan.id}
  /\ UNCHANGED << registry, subs, newTaskRespondedChan, responseChannel,
                  ctxDone, service, counters, initCalls, sendCalls, dequeued,
                  panics, logged, blsAggServiceResp, task, taskResponse,
                  sendErr, locks, writers >>

\* A variant that registers a task only when its index has a session already.
TasksLockInsert_AfterSession ==
  /\ pc = "tasksLock"
  /\ tasksMu = "unlocked"
  /\ tasksMu' = "locked"
  /\ tasks' = IF newTaskCreatedLog.taskIndex \in sessions
              THEN RegisterTask(tasks, newTaskCreatedLog) ELSE tasks
  /\ pc' = "tasksUnlock"
  /\ UNCHANGED << taskResponses, subs, chans, responseChannel, ctxDone,
                  service, counters, history, locals, taskResponsesMu,
                  writers >>

\* agg.tasksMu.Lock(); agg.tasks[taskLog.TaskIndex] = taskLog.Task
TasksLockInsert ==
  /\ pc = "tasksLock"
  /\ tasksMu = "unlocked"
  /\ tasksMu' = "locked"
  /\ tasks' = RegisterTask(tasks, newTaskCreatedLog)
  /\ pc' = "tasksUnlock"
  /\ UNCHANGED << taskResponses, subs, chans, responseChannel, ctxDone,
                  service, counters, history, locals, taskResponsesMu,
                  writers >>

\* agg.tasksMu.Unlock()
TasksUnlock ==
  /\ pc = "tasksUnlock"
  /\ tasksMu' = "unlocked"
  /\ pc' = "initializeNewTask"
  /\ UNCHANGED << registry, subs, chans, responseChannel, ctxDone, service,
                  counters, history, locals, taskResponsesMu, writers >>

\* agg.blsAggregationService.InitializeNewTask(...): the service opens a
\* session unless it fails or refuses; the call is recorded
InitializeNewTask(args) ==
  \E fault \in BOOLEAN :
    LET err == fault \/ InitializeNewTaskRefuses(args) IN
      /\ sessions' = IF err THEN sessions ELSE sessions \cup {args.taskIndex}
      /\ initCalls' =
           [count |-> [initCalls.count EXCEPT ![args.taskIndex] = @ + 1],
            last |-> args]

\* the rest of processTaskCreatedLog: the arguments, the call, the error
\* returned to Start, which logs it
CallInitializeNewTask ==
  /\ pc = "initializeNewTask"
  /\ InitializeNewTask(InitializeNewTaskArgs(newTaskCreatedLog))
  /\ newTaskCreatedLog' = None
  /\ pc' = "select"
  /\ UNCHANGED << registry, subs, chans, responseChannel, ctxDone, finalized,
                  counters, sendCalls, dequeued, panics, firstTask, processed,
                  logged, blsAggServiceResp, task, taskResponse, sendErr,
                  locks, writers >>

\* case blsAggServiceResp := <-agg.blsAggregationService.GetResponseChannel(),
\* and the check of blsAggServiceResp.Err with its panic
SelectBlsResponse ==
  /\ pc = "select"
  /\ responseChannel # None
  /\ responseChannel' = None
  /\ blsAggServiceResp' = responseChannel
  /\ IF responseChannel.err
     THEN /\ pc' = "panicked"
          /\ panics' = panics + 1
          /\ UNCHANGED dequeued
     ELSE /\ pc' = "tasksRLock"
          /\ dequeued' = [dequeued EXCEPT ![responseChannel.taskIndex] = @ + 1]
          /\ UNCHANGED panics
  /\ UNCHANGED << registry, subs, chans, ctxDone, service, counters,
                  initCalls, sendCalls, firstTask, processed, logged,
                  newTaskCreatedLog, task, taskResponse, sendErr, locks,
                  writers >>

\* agg.tasksMu.RLock(); task := agg.tasks[blsAggServiceResp.TaskIndex]
TasksRLockRead ==
  /\ pc = "tasksRLock"
  /\ tasksMu # "locked"
  /\ tasksMu' = "rlocked"
  /\ task' = LookupTask(tasks, blsAggServiceResp)
  /\ pc' = "tasksRUnlock"
  /\ UNCHANGED << registry, subs, chans, responseChannel, ctxDone, service,
                  counters, history, newTaskCreatedLog, blsAggServiceResp,
                  taskResponse, sendErr, taskResponsesMu, writers >>

\* A variant that keeps the read lock of tasks until the function returns.
TasksRUnlock_Deferred ==
  /\ pc = "tasksRUnlock"
  /\ pc' = "taskResponsesRLock"
  /\ UNCHANGED << registry, subs, chans, responseChannel, ctxDone, service,
                  counters, history, locals, locks, writers >>

\* agg.tasksMu.RUnlock()
TasksRUnlock ==
  /\ pc = "tasksRUnlock"
  /\ tasksMu' = "unlocked"
  /\ pc' = "taskResponsesRLock"
  /\ UNCHANGED << registry, subs, chans, responseChannel, ctxDone, service,
                  counters, history, locals, taskResponsesMu, writers >>

\* A variant that reads taskResponses without taking the read lock.
TaskResponsesRLockRead_NoLock ==
  /\ pc = "taskResponsesRLock"
  /\ taskResponse' = LookupTaskResponse(taskResponses, blsAggServiceResp)
  /\ pc' = "taskResponsesRUnlock"
  /\ UNCHANGED << registry, subs, chans, responseChannel, ctxDone, service,
                  counters, history, newTaskCreatedLog, blsAggServiceResp,
                  task, sendErr, locks, writers >>

\* agg.taskResponsesMu.RLock()
\* taskResponse := agg.taskResponses[resp.TaskIndex][resp.TaskResponseDigest]
TaskResponsesRLockRead ==
  /\ pc = "taskResponsesRLock"
  /\ taskResponsesMu # "locked"
  /\ taskResponsesMu' = "rlocked"
  /\ taskResponse' = LookupTaskResponse(taskResponses, blsAggServiceResp)
  /\ pc' = "taskResponsesRUnlock"
  /\ UNCHANGED << registry, subs, chans, responseChannel, ctxDone, service,
                  counters, history, newTaskCreatedLog, blsAggServiceResp,
                  task, sendErr, tasksMu, writers >>

\* agg.taskResponsesMu.RUnlock()
TaskResponsesRUnlock ==
  /\ pc = "taskResponsesRUnlock"
  /\ taskResponsesMu' = "unlocked"
  /\ pc' = "sendAggregatedResponse"
  /\ UNCHANGED << registry, subs, chans, responseChannel, ctxDone, service,
                  counters, history, locals, tasksMu, writers >>

\* _, err := agg.avsWriter.SendAggregatedResponse(ctx, task, taskResponse, ...)
CallSendAggregatedResponse ==
  /\ pc = "sendAggregatedResponse"
  /\ \E e \in BOOLEAN :
       /\ sendErr' = IF e THEN "error" ELSE "nil"
       /\ sendCalls' =
            [count |-> [sendCalls.count EXCEPT
                          ![blsAggServiceResp.taskIndex] = @ + 1],
             last |-> [kind |-> "send", err |-> e,
                       taskIndex |-> blsAggServiceResp.taskIndex,
                       digest |-> blsAggServiceResp.digest,
                       task |-> task, taskResponse |-> taskResponse]]
  /\ pc' = "logSendError"
  /\ UNCHANGED << registry, subs, chans, responseChannel, ctxDone, service,
                  counters, initCalls, dequeued, panics, firstTask, processed,
                  logged, newTaskCreatedLog, blsAggServiceResp, task,
                  taskResponse, locks, writers >>

\* A variant that calls SendAggregatedResponse once more after an error.
LogSendError_Retries ==
  /\ pc = "logSendError"
  /\ sendCalls' =
       IF sendErr = "error"
       THEN [sendCalls EXCEPT !.count[blsAggServiceResp.taskIndex] = @ + 1]
       ELSE sendCalls
  /\ blsAggServiceResp' = None
  /\ task' = ZeroTask
  /\ taskResponse' = ZeroTaskResponse
  /\ sendErr' = "unset"
  /\ pc' = "select"
  /\ UNCHANGED << registry, subs, chans, responseChannel, ctxDone, service,
                  counters, initCalls, dequeued, panics, firstTask, processed,
                  logged, newTaskCreatedLog, locks, writers >>

\* A variant that drops the task from the registry once it was submitted.
LogSendError_PrunesTask ==
  /\ pc = "logSendError"
  /\ tasks' = IF sendErr = "nil"
              THEN [i \in DOMAIN tasks \ {blsAggServiceResp.taskIndex}
                      |-> tasks[i]]
              ELSE tasks
  /\ blsAggServiceResp' = None
  /\ task' = ZeroTask
  /\ taskResponse' = ZeroTaskResponse
  /\ sendErr' = "unset"
  /\ pc' = "select"
  /\ UNCHANGED << taskResponses, subs, chans, responseChannel, ctxDone,
                  service, counters, history, newTaskCreatedLog, locks,
                  writers >>

\* if err != nil { agg.logger.Error(...) }, and the return to the select
LogSendError ==
  /\ pc = "logSendError"
  /\ blsAggServiceResp' = None
  /\ task' = ZeroTask
  /\ taskResponse' = ZeroTaskResponse
  /\ sendErr' = "unset"
  /\ pc' = "select"
  /\ UNCHANGED << registry, subs, chans, responseChannel, ctxDone, service,
                  counters, history, newTaskCreatedLog, locks, writers >>

\* ------------------------------------------- the writers of taskResponses
\* A goroutine of the server takes taskResponsesMu exclusively to record the
\* response with digest d for index i.
WriterLock(w) ==
  /\ Alive
  /\ writers[w].pc = "idle"
  /\ taskResponsesMu = "unlocked"
  /\ taskResponsesMu' = "locked"
  /\ \E i \in TaskIndex, d \in Digests :
       /\ ResponseGet(taskResponses, i, d) = ZeroTaskResponse
       /\ writers' = [writers EXCEPT
                        ![w] = [pc |-> "create", taskIndex |-> i, digest |-> d]]
  /\ nRecorded' = nRecorded + 1
  /\ UNCHANGED << pc, registry, subs, chans, responseChannel, ctxDone,
                  service, nCreated, nResponded, nSubErr, history, locals,
                  tasksMu >>

\* The writer creates the inner map of its index if there is none yet.
WriterCreate(w) ==
  /\ writers[w].pc = "create"
  /\ taskResponses' =
       IF writers[w].taskIndex \in DOMAIN taskResponses THEN taskResponses
       ELSE MapPut(taskResponses, writers[w].taskIndex, << >>)
  /\ writers' = [writers EXCEPT ![w].pc = "insert"]
  /\ UNCHANGED << pc, tasks, subs, chans, responseChannel, ctxDone, service,
                  counters, history, locals, locks >>

\* The writer stores the response under its digest.
WriterInsert(w) ==
  /\ writers[w].pc = "insert"
  /\ taskResponses' =
       MapPut(taskResponses, writers[w].taskIndex,
              MapPut(taskResponses[writers[w].taskIndex], writers[w].digest,
                     ResponseOf(writers[w].taskIndex, writers[w].digest)))
  /\ writers' = [writers EXCEPT ![w].pc = "unlock"]
  /\ UNCHANGED << pc, tasks, subs, chans, responseChannel, ctxDone, service,
                  counters, history, locals, locks >>

\* The writer releases taskResponsesMu.
WriterUnlock(w) ==
  /\ writers[w].pc = "unlock"
  /\ taskResponsesMu' = "unlocked"
  /\ writers' = [writers EXCEPT ![w].pc = "done"]
  /\ UNCHANGED << pc, registry, subs, chans, responseChannel, ctxDone,
                  service, counters, history, locals, tasksMu >>

\* The loop with its handlers step by step, the collaborators that feed it
\* and the writers of taskResponses.
FineNext ==
  \/ EmitTaskCreated
  \/ EmitTaskResponded
  \/ FailTaskCreatedSub
  \/ FailTaskRespondedSub
  \/ DeliverResponse
  \/ RecordResponse
  \/ SelectTaskCreatedSubErr
  \/ SubscribeToNewTasks
  \/ SelectTaskRespondedSubErr
  \/ SubscribeToTaskResponses
  \/ SelectNewTaskCreated
  \/ TasksLockInsert
  \/ TasksUnlock
  \/ CallInitializeNewTask
  \/ CaseTaskResponded
  \/ SelectBlsResponse
  \/ TasksRLockRead
  \/ TasksRUnlock
  \/ TaskResponsesRLockRead
  \/ TaskResponsesRUnlock
  \/ CallSendAggregatedResponse
  \/ LogSendError

FineSpec == Init /\ [][FineNext]_vars

\* The writers of taskResponses step by step, next to the one reader: the
\* loop handling completions.
WritersNext ==
  \/ DeliverResponse
  \/ \E w \in Writers : WriterLock(w)
  \/ \E w \in Writers : WriterCreate(w)
  \/ \E w \in Writers : WriterInsert(w)
  \/ \E w \in Writers : WriterUnlock(w)
  \/ SelectBlsResponse
  \/ TasksRLockRead
  \/ TasksRUnlock
  \/ TaskResponsesRLockRead
  \/ TaskResponsesRUnlock
  \/ CallSendAggregatedResponse
  \/ LogSendError

WritersSpec == Init /\ [][WritersNext]_vars

\* ------------------------------------------------------------------ claims
\* The loop takes a completion off the response channel in this step.
Dequeues == responseChannel.kind = "completion" /\ responseChannel' = None

\* C1: with at most one terminal result delivered per task index, the loop
\* issues at most one SendAggregatedResponse call per index, and exactly one
\* for each error-free completion it dequeued.
C1_AtMostOneSubmissionPerTask ==
  \A i \in TaskIndex :
    /\ sendCalls.count[i] <= 1
    /\ sendCalls.count[i] = dequeued[i]

\* C1 witness: an error-free completion was dequeued and submitted once.
C1_Witness == \E i \in TaskIndex : dequeued[i] = 1 /\ sendCalls.count[i] = 1

\* C2 (as claimed): a later task-created event with the same index never
\* replaces the task of the first event in the registry.
C2_FirstTaskIsKept ==
  \A i \in DOMAIN tasks : tasks[i] = firstTask[i]

\* C3 (as claimed): dequeuing an error-free completion whose task or response
\* is absent from the registry issues no SendAggregatedResponse call and the
\* loop goes on.
C3_NoSubmissionWhenAbsent ==
  [][ ( /\ Dequeues
        /\ ~responseChannel.err
        /\ \/ responseChannel.taskIndex \notin DOMAIN tasks
           \/ ResponseGet(taskResponses, responseChannel.taskIndex,
                          responseChannel.digest) = ZeroTaskResponse )
      => (sendCalls' = sendCalls /\ pc' = "select") ]_vars

\* C4: a completion whose Err is set makes the loop panic, exactly once, with
\* no SendAggregatedResponse call for it; after the panic nothing happens in
\* the process any more.
C4_ErrorCompletionIsFatalOnce ==
  /\ [](panics <= 1 /\ (pc = "panicked" <=> panics = 1))
  /\ [][ (Dequeues /\ responseChannel.err)
         => (pc' = "panicked" /\ panics' = panics + 1
             /\ sendCalls' = sendCalls) ]_vars
  /\ [][ pc # "panicked" ]_vars

\* C4 witness: the loop has panicked on an error completion.
C4_Witness == pc = "panicked" /\ panics = 1 /\ finalized # {}

\* The loop is cancelled or has left its select for good.
Stopped == ctxDone \/ pc # "select"

\* An event of the given class, offered by a subscription the loop re-created
\* (generation 1 or more), waits on a channel. The channels are unbuffered, so
\* it is the last event of its class the source has emitted.
InFlightAfterResubscription(class) ==
  \E ch \in {newTaskCreatedChan, newTaskRespondedChan} :
    ch.kind = class /\ ch.gen >= 1

C6_OneSessionPerIndex ==
  \A i \in TaskIndex : initCalls.count[i] <= 1

\* C7: for an error-free completion whose task and response are both in the
\* registry, the one SendAggregatedResponse call carries the task stored
\* under its index and the response stored under its index and digest.
C7_SubmissionUsesStoredEntries ==
  [][ ( /\ Dequeues
        /\ ~responseChannel.err
        /\ responseChannel.taskIndex \in DOMAIN tasks
        /\ ResponseGet(taskResponses, responseChannel.taskIndex,
                       responseChannel.digest) # ZeroTaskResponse )
      => ( /\ sendCalls'.count[responseChannel.taskIndex]
                = sendCalls.count[responseChannel.taskIndex] + 1
           /\ sendCalls'.last.taskIndex = responseChannel.taskIndex
           /\ sendCalls'.last.digest = responseChannel.digest
           /\ sendCalls'.last.task = tasks[responseChannel.taskIndex]
           /\ sendCalls'.last.taskResponse =
                taskResponses[responseChannel.taskIndex][responseChannel.digest]
         ) ]_vars

\* C7 witness: a call was issued with a registered task and a recorded
\* response, while the same index holds a response under another digest too.
C7_Witness ==
  /\ sendCalls.last.kind = "send"
  /\ sendCalls.last.task # ZeroTask
  /\ sendCalls.last.taskResponse # ZeroTaskResponse
  /\ Cardinality(DOMAIN taskResponses[sendCalls.last.taskIndex]) = 2

\* The task whose event led to the last InitializeNewTask call: the one the
\* registry holds under the call's index.
LastInitTask == tasks[initCalls.last.taskIndex]

\* C8 (as claimed): InitializeNewTask receives the event's index and creation
\* block, the quorum numbers in order, and as many thresholds, each the
\* threshold the task requires.
C8_InitArgsAreTheTasks ==
  initCalls.last.kind = "init" =>
    /\ initCalls.last.taskCreatedBlock = LastInitTask.taskCreatedBlock
    /\ initCalls.last.quorumNums = LastInitTask.quorumNumbers
    /\ initCalls.last.quorumThresholdPercentages =
         [i \in 1..Len(LastInitTask.quorumNumbers) |->
            LastInitTask.quorumThresholdPercentage]

\* C9: when the processed task-created events carry pairwise distinct
\* indices, the registry holds exactly one entry per processed index, that
\* event's task, whether or not InitializeNewTask succeeded.
C9_OneEntryPerDistinctIndex ==
  (\A i \in TaskIndex : initCalls.count[i] <= 1) =>
    /\ DOMAIN tasks = {i \in TaskIndex : initCalls.count[i] = 1}
    /\ \A i \in DOMAIN tasks : tasks[i] = firstTask[i]

\* C9 witness: two events with distinct indices were processed,
\* InitializeNewTask failing for one of them and succeeding for the other.
C9_Witness ==
  /\ \A i \in TaskIndex : initCalls.count[i] = 1
  /\ Cardinality(sessions) = 1
  /\ Cardinality(processed) = 2

\* A step of the dispatch loop: one case of the select.
LoopStep ==
  \/ CaseCtxDone
  \/ CaseTaskCreatedSubErr
  \/ CaseNewTaskCreated
  \/ CaseTaskRespondedSubErr
  \/ CaseTaskResponded
  \/ CaseBlsResponse

\* C10 (as claimed): with the context already cancelled at the start of an
\* iteration, the loop returns in that iteration and handles no pending event.
C10_CancellationHasPriority ==
  [][ (ctxDone /\ LoopStep) => pc' = "returned" ]_vars

\* The registry, the subscriptions and the sessions of the aggregation service.
Held == << tasks, taskResponses, subTaskCreated, subTaskResponded, sessions,
           finalized >>

\* C11: once the context is cancelled the loop eventually returns, unless a
\* handler aborts the process; Start has returned only after a cancellation
\* and only with nil; the returning step leaves the registry, the
\* subscriptions and the sessions, finalized or not, as they were.
C11_CancelledLoopReturnsNil ==
  /\ ctxDone ~> (pc = "returned" \/ pc = "panicked")
  /\ [](pc \in {"select", "returned", "panicked"})
  /\ [](pc = "returned" => ctxDone)
  /\ [][pc # pc' /\ pc' # "panicked"
          => pc' = "returned" /\ Held' = Held /\ initCalls' = initCalls
             /\ sendCalls' = sendCalls]_vars

\* C11 witness: the loop has returned while a session was still open.
C11_Witness == pc = "returned" /\ ctxDone /\ sessions \ finalized # {}

\* InitializeNewTask is called in this step and returns an error: the call is
\* counted and no session is opened.
InitializeNewTaskFails ==
  /\ initCalls'.count # initCalls.count
  /\ sessions' = sessions

\* C12: when InitializeNewTask returns an error the loop neither returns nor
\* aborts nor touches its subscriptions: it is at the select again, where every
\* case is as ready as before, the event just handled apart.
C12_InitErrorIsOnlyLogged ==
  [][InitializeNewTaskFails
       => /\ pc = "select" /\ pc' = "select"
          /\ panics' = panics
          /\ subs' = subs
          /\ newTaskCreatedChan' = None
          /\ newTaskRespondedChan' = newTaskRespondedChan
          /\ responseChannel' = responseChannel
          /\ ctxDone' = ctxDone]_vars

\* C12 witness: the call for one index failed and the loop then handled the
\* event of the other index, whose session was opened.
C12_Witness ==
  /\ \A i \in TaskIndex : initCalls.count[i] = 1
  /\ sessions = {initCalls.last.taskIndex}
  /\ Cardinality(processed) = 2
  /\ pc = "select"

\* C14: the step that handles a task-responded event leaves tasks,
\* taskResponses and both subscription handles as they were, calls neither
\* InitializeNewTask nor SendAggregatedResponse, and ends at the select
\* without a return or a panic.
C14_TaskRespondedChangesNothing ==
  [][logged' # logged
       => /\ tasks' = tasks
          /\ taskResponses' = taskResponses
          /\ subTaskCreated' = subTaskCreated
          /\ subTaskResponded' = subTaskResponded
          /\ initCalls' = initCalls
          /\ sendCalls' = sendCalls
          /\ service' = service
          /\ pc = "select" /\ pc' = "select"
          /\ panics' = panics]_vars

\* C14 witness: a task-responded event was logged while the registry held a
\* task.
C14_Witness ==
  /\ logged # {}
  /\ tasks # << >>
  /\ pc = "select"

\* C19: every InitializeNewTask call carries the same time-to-expiry,
\* 100 blocks of 12 seconds, 1200 seconds, whatever the task's creation block
\* and however many events and steps came before it.
C19_TimeToExpiryIsConstant ==
  initCalls.last.kind = "init" => initCalls.last.timeToExpiry = 1200

\* C19 witness: sessions were requested for tasks of both creation blocks,
\* the later one once the earlier event had been handled.
C19_Witness ==
  /\ initCalls.last.kind = "init"
  /\ initCalls.last.taskCreatedBlock = 1001
  /\ initCalls.last.timeToExpiry = 1200
  /\ \E i \in TaskIndex : firstTask[i].taskCreatedBlock = 1000
  /\ Cardinality(processed) = 2

\* C13: when SendAggregatedResponse returns an error the handler makes no
\* further call and touches neither registry before it is back at the
\* select, without a panic; and no index ever sees a second call.
C13_SendErrorIsOnlyLogged ==
  /\ [](\A i \in TaskIndex : sendCalls.count[i] <= 1)
  /\ [][sendErr' = "error" /\ sendErr # "error"
          => /\ sendCalls'.count[blsAggServiceResp.taskIndex] = 1
             /\ registry' = registry
             /\ pc' = "logSendError"]_vars
  /\ [][sendErr = "error"
          => /\ sendCalls' = sendCalls
             /\ tasks' = tasks
             /\ panics' = panics
             /\ pc' \in {"logSendError", "select"}
             /\ (pc' = "select" => taskResponses' = taskResponses)]_vars

\* C13 witness: the call for a registered task failed and the loop is now
\* handling a later task-created event.
C13_Witness ==
  /\ sendCalls.last.kind = "send"
  /\ sendCalls.last.err
  /\ sendCalls.last.task # ZeroTask
  /\ sendCalls.count[sendCalls.last.taskIndex] = 1
  /\ pc = "initializeNewTask"

\* The loop takes an event, a completion or a subscription error in this step.
Receives ==
  \/ processed' # processed
  \/ logged' # logged
  \/ responseChannel # None /\ responseChannel' = None
  \/ pc' # pc /\ pc' \in {"subscribeToNewTasks", "subscribeToTaskResponses"}

\* C15: the loop takes something off a channel only at the select, with no
\* handler under way; the two handlers are never active together, and none
\* is active while the loop waits in the select.
C15_OneEventAtATime ==
  /\ [][Receives => pc = "select" /\ newTaskCreatedLog = None
                    /\ blsAggServiceResp = None]_vars
  /\ [](newTaskCreatedLog = None \/ blsAggServiceResp = None)
  /\ [](pc = "select" => newTaskCreatedLog = None /\ blsAggServiceResp = None)

\* C15 witness: a handler is under way while an event and a completion wait
\* on the other two channels.
C15_Witness ==
  /\ pc = "tasksUnlock"
  /\ newTaskRespondedChan # None
  /\ responseChannel # None

\* C16: during the calls of InitializeNewTask and SendAggregatedResponse the
\* loop holds neither lock; it never holds both; it holds tasksMu only
\* between the insert or lookup and the release that follows, and
\* taskResponsesMu only between its lookup and the release that follows.
C16_NoLockAcrossCalls ==
  /\ pc \in {"initializeNewTask", "sendAggregatedResponse", "logSendError"}
       => tasksMu = "unlocked" /\ taskResponsesMu = "unlocked"
  /\ ~(tasksMu # "unlocked" /\ taskResponsesMu # "unlocked")
  /\ tasksMu = "locked" => pc = "tasksUnlock"
  /\ tasksMu = "rlocked" => pc = "tasksRUnlock"
  /\ taskResponsesMu = "rlocked" => pc = "taskResponsesRUnlock"

\* C16 witness: the loop is about to call SendAggregatedResponse with a task
\* it read under the lock, both locks free.
C16_Witness ==
  /\ pc = "sendAggregatedResponse"
  /\ task # ZeroTask
  /\ tasksMu = "unlocked"
  /\ taskResponsesMu = "unlocked"

\* The writer is inside its critical section.
Writing(w) == writers[w].pc \in {"create", "insert", "unlock"}

\* C17: a response a writer has stored stays in taskResponses whatever the
\* other writer does, so two writers of one index with different digests
\* leave both entries; while the loop reads taskResponses under the read
\* lock no writer is inside its critical section; at most one writer is.
C17_ConcurrentWritersKeepBoth ==
  /\ \A w \in Writers :
       writers[w].pc \in {"unlock", "done"}
         => ResponseGet(taskResponses, writers[w].taskIndex, writers[w].digest)
              = ResponseOf(writers[w].taskIndex, writers[w].digest)
  /\ pc = "taskResponsesRUnlock" => \A w \in Writers : ~Writing(w)
  /\ \A v, w \in Writers : Writing(v) /\ Writing(w) => v = w

\* C17 witness: both writers have finished, for the same index and different
\* digests, and the loop has submitted one of the two responses.
C17_Witness ==
  /\ \A w \in Writers : writers[w].pc = "done"
  /\ writers[1].taskIndex = writers[2].taskIndex
  /\ writers[1].digest # writers[2].digest
  /\ Cardinality(DOMAIN taskResponses[writers[1].taskIndex]) = 2
  /\ sendCalls.last.kind = "send"
  /\ sendCalls.last.taskIndex = writers[1].taskIndex
  /\ sendCalls.last.taskResponse # ZeroTaskResponse

\* C18: each class has at most one subscription open at any moment; the step
\* that takes a subscription error closes the failed subscription and the
\* next step opens the replacement, on the channel of the class; neither step
\* touches the other class's handle and subscription or the registries.
C18_UnsubscribeBeforeResubscribe ==
  /\ [](\A c \in EventClass : Cardinality(liveSubs[c]) <= 1)
  /\ [][pc = "select" /\ pc' = "subscribeToNewTasks"
          => /\ liveSubs'["created"] = {}
             /\ liveSubs'["responded"] = liveSubs["responded"]
             /\ subTaskResponded' = subTaskResponded
             /\ registry' = registry]_vars
  /\ [][pc = "subscribeToNewTasks" /\ pc' = "select"
          => /\ liveSubs'["created"] = {subTaskCreated'.gen}
             /\ subTaskCreated'.gen # subTaskCreated.gen
             /\ subTaskCreated'.target = "newTaskCreatedChan"
             /\ liveSubs'["responded"] = liveSubs["responded"]
             /\ subTaskResponded' = subTaskResponded
             /\ registry' = registry]_vars
  /\ [][pc = "select" /\ pc' = "subscribeToTaskResponses"
          => /\ liveSubs'["responded"] = {}
             /\ liveSubs'["created"] = liveSubs["created"]
             /\ subTaskCreated' = subTaskCreated
             /\ registry' = registry]_vars
  /\ [][pc = "subscribeToTaskResponses" /\ pc' = "select"
          => /\ liveSubs'["responded"] = {subTaskResponded'.gen}
             /\ subTaskResponded'.gen # subTaskResponded.gen
             /\ subTaskResponded'.target = "newTaskRespondedChan"
             /\ liveSubs'["created"] = liveSubs["created"]
             /\ subTaskCreated' = subTaskCreated
             /\ registry' = registry]_vars

\* C18 witness: both subscriptions have been replaced once, with a task in
\* the registry.
C18_Witness ==
  /\ liveSubs = [c \in EventClass |-> {1}]
  /\ subTaskCreated.gen = 1
  /\ subTaskResponded.gen = 1
  /\ tasks # << >>
  /\ pc = "select"

\* C20: the task of an event is in the registry before InitializeNewTask is
\* called for it, so every index the service was asked to track, and every
\* index it tracks, has an entry; and the lookup for a completion whose index
\* the service tracks finds that entry.
C20_InitializedIndexIsRegistered ==
  /\ \A i \in TaskIndex :
       initCalls.count[i] > 0 \/ i \in sessions => i \in DOMAIN tasks
  /\ pc = "initializeNewTask"
       => /\ newTaskCreatedLog.taskIndex \in DOMAIN tasks
          /\ tasks[newTaskCreatedLog.taskIndex] = newTaskCreatedLog.task
  /\ pc = "tasksRUnlock" /\ blsAggServiceResp.taskIndex \in sessions
       => /\ blsAggServiceResp.taskIndex \in DOMAIN tasks
          /\ task = tasks[blsAggServiceResp.taskIndex]
          /\ task # ZeroTask

\* C20 witness: the loop has looked up the task of a completion for an index
\* the service tracks.
C20_Witness ==
  /\ pc = "tasksRUnlock"
  /\ blsAggServiceResp.taskIndex \in sessions
  /\ initCalls.count[blsAggServiceResp.taskIndex] = 1
  /\ task \in TaskPayloads

\* C21: when InitializeNewTask returns an error for a task-created event, the
\* registry holds that event's task under the event's index once
\* processTaskCreatedLog has returned, and no session was opened.
C21_RegistrationIsNotRolledBack ==
  [][InitializeNewTaskFails
       => /\ newTaskCreatedChan.kind = "created"
          /\ newTaskCreatedChan.taskIndex \in DOMAIN tasks'
          /\ tasks'[newTaskCreatedChan.taskIndex] = newTaskCreatedChan.task
          /\ sessions' = sessions
          /\ pc' = "select"]_vars

\* C21 witness: the only call for an index failed; the index has its event's
\* task in the registry and no session.
C21_Witness ==
  \E i \in TaskIndex :
    /\ initCalls.count[i] = 1
    /\ i \notin sessions
    /\ i \in DOMAIN tasks
    /\ tasks[i] = firstTask[i]
    /\ tasks[i] \in TaskPayloads
    /\ pc = "select"

\* The loop takes a step of sendAggregatedResponseToContract: it receives the
\* completion or executes a statement of the handler.
SubmissionStep ==
  \/ responseChannel # None /\ responseChannel' = None
  \/ blsAggServiceResp # None /\ pc' # pc

\* C22: no step removes an index from tasks or from taskResponses; no step of
\* sendAggregatedResponseToContract changes either registry, and tasks stays
\* as it is for as long as a submission is under way, whatever the call
\* returns.
C22_RegistryNeverShrinks ==
  /\ [][/\ DOMAIN tasks \subseteq DOMAIN tasks'
        /\ DOMAIN taskResponses \subseteq DOMAIN taskResponses']_vars
  /\ [][SubmissionStep => registry' = registry]_vars
  /\ [][blsAggServiceResp # None => tasks' = tasks]_vars

\* C22 witness: the submission of a finalized task has failed and the handler
\* has returned; the task and the response are in the registries as they
\* were submitted.
C22_Witness ==
  /\ pc = "select"
  /\ sendCalls.last.kind = "send"
  /\ sendCalls.last.err
  /\ sendCalls.last.taskIndex \in finalized
  /\ sendCalls.last.task \in TaskPayloads
  /\ tasks[sendCalls.last.taskIndex] = sendCalls.last.task
  /\ sendCalls.last.taskResponse # ZeroTaskResponse
  /\ ResponseGet(taskResponses, sendCalls.last.taskIndex,
                 sendCalls.last.digest) = sendCalls.last.taskResponse

====
